---- MODULE Spec2Model ----
(***************************************************************************)
(* Model of the voice anonymizer's transform pipeline                      *)
(* (AudioProcessor.anonymizeAudio, forwardFFT, inverseFFT, reverseBits,    *)
(* audioBufferToWav), of the recursive forwardFFT of its earlier variants  *)
(* and of the recording handlers (Index.handleRecord, startRecording,      *)
(* stopRecording).                                                          *)
(*                                                                         *)
(* Numbers are exact rationals <<n, d>> (d > 0, lowest terms); the         *)
(* rounding of Float32Array stores and of double arithmetic is not         *)
(* modelled.  Window sizes are 1, 2 and 4, for which every twiddle factor  *)
(* and every frequency-shift rotation is a quarter turn, so that cos and   *)
(* sin take the values 0, 1 and -1.  Every value is a tuple of integers:   *)
(*   <<n, d>>, d > 0      the number n/d;                                   *)
(*   <<0, 0>>, <<1, 0>>, <<-1, 0>>   NaN, Infinity, -Infinity;              *)
(*   <<n, d, a, z>>       the irrational Math.tanh(n/d * a), divided by     *)
(*                        Math.tanh(a) when z = 1;                          *)
(* a 16-bit code is <<v>> or, for a tanh sample, the sample's tuple; a byte *)
(* is <<b>> or <<k, n, d, a, z>>, byte k of the code of <<n, d, a, z>>.     *)
(***************************************************************************)
EXTENDS Integers, Sequences, FiniteSets, TLC

VARIABLES
    variant,        \* which anonymizeAudio the run executes
    chunkSize,      \* const chunkSize (2048 in the source, small here)
    settings,       \* the caller's settings object
    audioBuffer,    \* decoded input: [numberOfChannels, length, sampleRate, data]
    outputData,     \* outputBuffer's channel data, [channel -> [index -> sample]]
    pc,             \* position inside anonymizeAudio / audioBufferToWav
    channel,        \* loop variable of the channel loop
    i,              \* loop variable of the chunk loop (first sample of the window)
    j,              \* loop variable of the effect loop
    fft,            \* the window: interleaved re/im, indices 0 .. 2*chunkSize-1
    filled,         \* the window as it was after the fill loops
    spectrum,       \* the window as forwardFFT left it
    binLog,         \* per effect iteration: what it read and which bins it wrote
    draws,          \* what Math.random() returned in the effect pass of the window
    writes,         \* number of stores to outputData[channel][index], any index
    windows,        \* number of windows filled so far, per channel
    view,           \* the DataView of audioBufferToWav
    viewWrites,     \* number of stores per byte offset of view
    rendered,       \* renderedBuffer: [numberOfChannels, length, sampleRate, data]
    wdata,          \* Float32Array data of audioBufferToWav (channels concatenated)
    wi,             \* loop variable of the sample loop of audioBufferToWav
    offset,         \* let offset of audioBufferToWav
    result,         \* what anonymizeAudio returned: "none", "blob" or "error"
    revIndex,       \* loop variable i of the bit-reversal loop of forwardFFT
    swaps,          \* the exchanges <<i, j>> the bit-reversal loop has made
    recBuffer,      \* the buffer the recursive forwardFFT of the earlier variants leaves
    isRecording,    \* Index: const [isRecording, setIsRecording]
    isProcessing,   \* Index: const [isProcessing, setIsProcessing]
    mediaRecorder,  \* AudioProcessor.mediaRecorder: 0 (null) or a recorder
    chunks,         \* AudioProcessor.chunks: the data chunks pushed, by recorder
    recorders,      \* the MediaRecorder objects created: state, onstop, how they ended
    calls           \* the invocations of handleRecord and where each stands

\* The variables of the bit-reversal loop and of the recursive forwardFFT.
stepVars == <<revIndex, swaps, recBuffer>>

\* The variables of Index.handleRecord and of startRecording / stopRecording.
recordVars == <<isRecording, isProcessing, mediaRecorder, chunks, recorders, calls>>

vars == <<variant, chunkSize, settings, audioBuffer, outputData, pc, channel, i, j,
          fft, filled, spectrum, binLog, draws, writes, windows, view, viewWrites, rendered,
          wdata, wi,
          offset, result, stepVars, recordVars>>

\* An absent (undefined) numeric field of the settings object.
Undefined == <<>>

----------------------------------------------------------------------------
(* Exact rational arithmetic. *)

Abs(x) == IF x < 0 THEN -x ELSE x

RECURSIVE Gcd(_, _)
Gcd(a, b) == IF b = 0 THEN a ELSE Gcd(b, a % b)

\* n/d in lowest terms with a positive denominator (d # 0).
Rat(n, d) ==
    LET g == Gcd(Abs(n), Abs(d))
        s == IF d < 0 THEN -1 ELSE 1
    IN  <<(s * n) \div g, (s * d) \div g>>

Zero == <<0, 1>>
One == <<1, 1>>
MinusOne == <<-1, 1>>
Int2Rat(n) == <<n, 1>>

RAdd(a, b) == Rat(a[1] * b[2] + b[1] * a[2], a[2] * b[2])
RNeg(a) == <<-a[1], a[2]>>
RSub(a, b) == RAdd(a, RNeg(b))
RMul(a, b) == Rat(a[1] * b[1], a[2] * b[2])
RDiv(a, b) == Rat(a[1] * b[2], a[2] * b[1])
RLt(a, b) == a[1] * b[2] < b[1] * a[2]
RLe(a, b) == a[1] * b[2] <= b[1] * a[2]

\* Math.floor and the truncation toward zero of ToInt16 / ToInt32.
RFloor(a) == a[1] \div a[2]
RTrunc(a) == IF a[1] >= 0 THEN a[1] \div a[2] ELSE -((-a[1]) \div a[2])

\* a % b of JavaScript on integers: the sign of the dividend.
JsMod(a, b) == IF a >= 0 THEN a % b ELSE -((-a) % b)

\* Math.cos and Math.sin at q quarter turns.
CosQ(q) == CASE q % 4 = 0 -> One [] q % 4 = 2 -> MinusOne [] OTHER -> Zero
SinQ(q) == CASE q % 4 = 1 -> One [] q % 4 = 3 -> MinusOne [] OTHER -> Zero

----------------------------------------------------------------------------
(* forwardFFT, reverseBits, inverseFFT (iterative radix-2 Cooley-Tukey). *)

\* buffer.length of a Float32Array modelled as a function on 0 .. length-1.
BufLen(buffer) == Cardinality(DOMAIN buffer)

\* Math.log2 of a power of two.
RECURSIVE Log2(_)
Log2(n) == IF n <= 1 THEN 0 ELSE 1 + Log2(n \div 2)

\* for (i = 0; i < bits; i++) { result = (result << 1) | (x & 1); x >>= 1; }
RECURSIVE reverseBitsLoop(_, _, _, _)
reverseBitsLoop(x, bits, k, res) ==
    IF k >= bits THEN res
    ELSE reverseBitsLoop(x \div 2, bits, k + 1, 2 * res + (x % 2))

reverseBits(x, bits) == reverseBitsLoop(x, bits, 0, 0)

\* The body of "if (j > i)": exchange complex samples p and q, re and im together.
SwapComplex(buffer, p, q) ==
    [buffer EXCEPT ![2 * p] = buffer[2 * q], ![2 * p + 1] = buffer[2 * q + 1],
                   ![2 * q] = buffer[2 * p], ![2 * q + 1] = buffer[2 * p + 1]]

\* The guard j !== i, which lets both members of a pair exchange it.
SwapGuardBothWays(r, k) == r # k

\* Whether the bit-reversal loop exchanges i with its reverse r.
SwapGuard(r, k) == r > k

RECURSIVE BitReversal(_, _, _, _)
BitReversal(buffer, N, bits, k) ==
    IF k >= N THEN buffer
    ELSE LET r == reverseBits(k, bits)
         IN  BitReversal(IF SwapGuard(r, k) THEN SwapComplex(buffer, k, r) ELSE buffer,
                         N, bits, k + 1)

\* The twiddle angle with the sign of the inverse transform.
TwiddleQPositive(size, k) == (4 * k) \div size

\* angle * j = -2*pi*j/size, in quarter turns (size divides 4*j for size <= 4).
TwiddleQ(size, k) == -((4 * k) \div size)

\* One butterfly: the body of the innermost loop of forwardFFT.
Butterfly(buffer, size, base, k) ==
    LET halfSize == size \div 2
        re == CosQ(TwiddleQ(size, k))
        im == SinQ(TwiddleQ(size, k))
        evenIndex == base + k
        oddIndex == base + k + halfSize
        evenReal == buffer[2 * evenIndex]
        evenImag == buffer[2 * evenIndex + 1]
        oddReal == buffer[2 * oddIndex]
        oddImag == buffer[2 * oddIndex + 1]
        tempReal == RSub(RMul(oddReal, re), RMul(oddImag, im))
        tempImag == RAdd(RMul(oddReal, im), RMul(oddImag, re))
    IN  [buffer EXCEPT ![2 * evenIndex] = RAdd(evenReal, tempReal),
                       ![2 * evenIndex + 1] = RAdd(evenImag, tempImag),
                       ![2 * oddIndex] = RSub(evenReal, tempReal),
                       ![2 * oddIndex + 1] = RSub(evenImag, tempImag)]

RECURSIVE ButterflyJ(_, _, _, _)
ButterflyJ(buffer, size, base, k) ==
    IF k >= size \div 2 THEN buffer
    ELSE ButterflyJ(Butterfly(buffer, size, base, k), size, base, k + 1)

RECURSIVE ButterflyI(_, _, _, _)
ButterflyI(buffer, N, size, base) ==
    IF base >= N THEN buffer
    ELSE ButterflyI(ButterflyJ(buffer, size, base, 0), N, size, base + size)

RECURSIVE ButterflySize(_, _, _)
ButterflySize(buffer, N, size) ==
    IF size > N THEN buffer
    ELSE ButterflySize(ButterflyI(buffer, N, size, 0), N, 2 * size)

forwardFFT(buffer) ==
    LET N == BufLen(buffer) \div 2
        bits == Log2(N)
    IN  ButterflySize(BitReversal(buffer, N, bits, 0), N, 2)

\* for (i = 0; i < buffer.length; i += 2) buffer[i + 1] = -buffer[i + 1];
Conjugate(buffer) ==
    [k \in DOMAIN buffer |-> IF k % 2 = 1 THEN RNeg(buffer[k]) ELSE buffer[k]]

\* The scaling loop dividing by buffer.length instead of N.
InverseScaleByLength(buffer) == BufLen(buffer)

\* The divisor of the scaling loop of inverseFFT.
InverseScale(buffer) == BufLen(buffer) \div 2

\* Conjugate again and divide both components by N.
ConjugateScale(buffer, N) ==
    [k \in DOMAIN buffer |->
        IF k % 2 = 1 THEN RDiv(RNeg(buffer[k]), Int2Rat(N))
        ELSE RDiv(buffer[k], Int2Rat(N))]

inverseFFT(buffer) ==
    ConjugateScale(forwardFFT(Conjugate(buffer)), InverseScale(buffer))

----------------------------------------------------------------------------
(* anonymizeAudio: the two variants of the chunked pipeline.               *)
(*   "scrambleFix": unnamed/part_000 lines 43-250 (settings defaults,      *)
(*                  effects applied unconditionally, offset scrambling,    *)
(*                  normalised tanh);                                      *)
(*   "gated":       src/lib/audioProcessor.ts lines 47-248 (effects only   *)
(*                  when a toggle is set, j + floor(j/2) scrambling).      *)

Variants == {"scrambleFix", "gated"}

Min(a, b) == IF a < b THEN a ELSE b

\* settings.x = settings.x ?? default  (part_000 lines 45-51)
DefaultScrambleRange == <<1, 500>>

WithDefault(x, d) == IF x = Undefined THEN d ELSE x

ApplyDefaults(s) ==
    [s EXCEPT !.phaseMultiplier = WithDefault(@, One),
              !.frequencyShiftMultiplier = WithDefault(@, One),
              !.harmonicAmount = WithDefault(@, Zero),
              !.noiseAmount = WithDefault(@, Zero),
              !.timeDistortionAmount = WithDefault(@, One),
              !.frequencyScrambleRange = WithDefault(@, DefaultScrambleRange)]

\* The settings object after the first statements of anonymizeAudio.
SettingsOnEntry(v, s) == IF v = "scrambleFix" THEN ApplyDefaults(s) ELSE s

\* const end = Math.min(i + chunkSize, inputData.length); currentChunkSize = end - i
currentChunkSize(start, N, L) == Min(start + N, L) - start

\* FillWindow reading inputData[k] instead of inputData[i + k].
FillWindowNoStart(inputData, start, N) ==
    LET cur == Min(start + N, BufLen(inputData)) - start
    IN  [k \in 0 .. 2 * N - 1 |->
            IF k % 2 = 0 /\ k \div 2 < cur THEN inputData[k \div 2] ELSE Zero]

\* The two fill loops: samples in the real parts, zero imaginary parts, zero tail.
FillWindow(inputData, start, N) ==
    LET cur == currentChunkSize(start, N, BufLen(inputData))
    IN  [k \in 0 .. 2 * N - 1 |->
            IF k % 2 = 0 /\ k \div 2 < cur THEN inputData[start + k \div 2] ELSE Zero]

\* if (useFrequencyScrambling || useAdditionalPhaseDistortion || useTimeDistortion)
AnyToggle(s) ==
    s.useFrequencyScrambling \/ s.useAdditionalPhaseDistortion \/ s.useTimeDistortion

\* Whether the effect loop recomputes bin j at all.
EffectsApply(v, s) == IF v = "gated" THEN AnyToggle(s) ELSE TRUE

ScrambleMultiplier == 8273

\* const maxOffset = Math.floor(chunkSize * settings.frequencyScrambleRange)
maxOffset(s, N) == RFloor(RMul(Int2Rat(N), s.frequencyScrambleRange))

\* The offset without the subtraction of maxOffset that centres it on zero.
scrambleOffsetUncentred(bin, mo) == JsMod(bin * ScrambleMultiplier, 2 * mo + 1)

\* const offset = ((j * 8273) % (2 * maxOffset + 1)) - maxOffset
scrambleOffset(bin, mo) == JsMod(bin * ScrambleMultiplier, 2 * mo + 1) - mo

\* targetBin scrambling whether or not useFrequencyScrambling is set.
targetBinAlwaysScrambled(v, s, N, bin, re, im) ==
    IF v = "scrambleFix"
    THEN JsMod(bin + scrambleOffset(bin,
                   RFloor(RMul(Int2Rat(N), <<1, 2>>))) + N, N)
    ELSE JsMod(bin + (bin \div 2), N)

\* targetBin with an offset taken from another setting.
targetBinBySetting(v, s, N, bin, re, im) ==
    IF ~s.useFrequencyScrambling THEN bin
    ELSE JsMod(bin + s.phaseMultiplier[1], N)

\* targetBin without the "+ chunkSize" that keeps the remainder non-negative.
targetBinUnwrapped(v, s, N, bin, re, im) ==
    IF ~s.useFrequencyScrambling THEN bin
    ELSE IF v = "scrambleFix"
         THEN JsMod(bin + scrambleOffset(bin, maxOffset(s, N)), N)
         ELSE JsMod(bin + (bin \div 2) - N, N)

\* The bin the recomputed value of source bin `bin` is stored at.  The sample
\* read from the bin (re, im) is in scope where the code computes it.
targetBin(v, s, N, bin, re, im) ==
    IF ~s.useFrequencyScrambling THEN bin
    ELSE IF v = "scrambleFix"
         THEN JsMod(bin + scrambleOffset(bin, maxOffset(s, N)) + N, N)
         ELSE JsMod(bin + (bin \div 2), N)

\* The negation applied to every even bin, whatever the toggle.
NegateGuardEveryEven(s, bin) == bin % 2 = 0

\* if (settings.useAdditionalPhaseDistortion && j % 2 === 0): the bin negated.
NegateGuard(s, bin) == s.useAdditionalPhaseDistortion /\ bin % 2 = 0

\* fft[2 * j] *= -1; fft[2 * j + 1] *= -1: the negated bin is the source index.
NegatedBin(s, bin, target) == bin

\* Complex product and power on pairs of rationals.
CMul(a, b) ==
    <<RSub(RMul(a[1], b[1]), RMul(a[2], b[2])), RAdd(RMul(a[1], b[2]), RMul(a[2], b[1]))>>

RECURSIVE CPow(_, _)
CPow(z, p) == IF p = 0 THEN <<One, Zero>> ELSE CMul(z, CPow(z, p - 1))

RECURSIVE RPow(_, _)
RPow(a, p) == IF p = 0 THEN One ELSE RMul(a, RPow(a, p - 1))

\* Math.sin(j * harmonicAmount) + Math.cos(j * harmonicAmount) for j * h = 0.
HarmonicTerm(bin, h) == RAdd(SinQ(0), CosQ(0))

\* The noise term added without the factor noiseAmount.
MagnitudeFactorUnscaledNoise(s, bin, r) ==
    RAdd(RAdd(One, HarmonicTerm(bin, s.harmonicAmount)), r)

\* magnitude *= 1 + sin(j*h) + cos(j*h) + Math.random() * noiseAmount
MagnitudeFactor(s, bin, r) ==
    RAdd(RAdd(One, HarmonicTerm(bin, s.harmonicAmount)), RMul(r, s.noiseAmount))

\* (j / chunkSize) * 2 * PI * frequencyShiftMultiplier + PI / 2, in quarter turns.
ShiftQ(s, N, bin) == 1 + (4 * bin * s.frequencyShiftMultiplier[1]) \div N

\* The bin recomputed with "magnitude +=" instead of "magnitude *=".
RewrittenBinAddedMagnitude(s, N, bin, re, im, r) ==
    LET q == ShiftQ(s, N, bin)
        k == MagnitudeFactor(s, bin, r)
    IN  IF re = Zero /\ im = Zero THEN <<RMul(k, CosQ(q)), RMul(k, SinQ(q))>>
        ELSE <<re, im>>

\* The pair (magnitude * cos(phase), magnitude * sin(phase)) after
\*   magnitude = sqrt(re^2 + im^2) * factor,
\*   phase     = -atan2(im, re) * phaseMultiplier + ShiftQ quarter turns,
\* which for z = re + i*im # 0 and an odd integer phaseMultiplier p is
\*   factor * conj(z)^p / (|z|^2)^((p-1)/2) * i^ShiftQ,    and 0 for z = 0.
RewrittenBin(s, N, bin, re, im, r) ==
    IF re = Zero /\ im = Zero THEN <<Zero, Zero>>
    ELSE LET p == s.phaseMultiplier[1]
             norm2 == RAdd(RMul(re, re), RMul(im, im))
             rot == CPow(<<re, RNeg(im)>>, p)
             den == RPow(norm2, (p - 1) \div 2)
             q == ShiftQ(s, N, bin)
             k == MagnitudeFactor(s, bin, r)
             w == CMul(<<RDiv(rot[1], den), RDiv(rot[2], den)>>, <<CosQ(q), SinQ(q)>>)
         IN  <<RMul(k, w[1]), RMul(k, w[2])>>

\* A store buffer[idx] = x of a Float32Array: ignored outside 0 .. length-1.
Store(buffer, idx, x) == IF idx \in DOMAIN buffer THEN [buffer EXCEPT ![idx] = x] ELSE buffer

\* One iteration of the effect loop on the window.
EffectIteration(v, s, N, buffer, bin, r) ==
    LET real == buffer[2 * bin]
        imag == buffer[2 * bin + 1]
        t == targetBin(v, s, N, bin, real, imag)
        nv == RewrittenBin(s, N, bin, real, imag, r)
        written == IF EffectsApply(v, s)
                   THEN Store(Store(buffer, 2 * t, nv[1]), 2 * t + 1, nv[2])
                   ELSE buffer
        n == NegatedBin(s, bin, t)
    IN  IF EffectsApply(v, s) /\ NegateGuard(s, bin)
        THEN [written EXCEPT ![2 * n] = RNeg(@), ![2 * n + 1] = RNeg(@)]
        ELSE written

\* What iteration `bin` of the effect loop read and which bins it stored to.
EffectRecord(v, s, N, buffer, bin) ==
    LET t == targetBin(v, s, N, bin, buffer[2 * bin], buffer[2 * bin + 1])
    IN  [read |-> <<buffer[2 * bin], buffer[2 * bin + 1]>>,
         wrote |-> IF EffectsApply(v, s) THEN {t} ELSE {},
         negated |-> IF EffectsApply(v, s) /\ NegateGuard(s, bin)
                     THEN {NegatedBin(s, bin, t)} ELSE {}]

\* Math.tanh(sample * a), divided by Math.tanh(a) when z = 1: rational at 0 and,
\* with the division, at 1 and -1; the term <<n, d, a, z>> elsewhere.
Tanh(sample, a, z) ==
    IF sample = Zero THEN Zero
    ELSE IF z = 1 /\ sample = One THEN One
    ELSE IF z = 1 /\ sample = MinusOne THEN MinusOne
    ELSE <<sample[1], sample[2], a, z>>

\* Whether the shaper divides by Math.tanh(timeDistortionAmount).
Normalizes(v) == IF v = "scrambleFix" THEN 1 ELSE 0

\* The time-domain shaper applied to one recovered sample.
Shape(v, s, sample) ==
    IF ~s.useTimeDistortion THEN sample
    ELSE Tanh(sample, s.timeDistortionAmount[1], Normalizes(v))

\* The copy loop running to chunkSize instead of currentChunkSize.
CopyLimitWholeWindow(N, cur) == N

\* The number of samples the copy loop stores for a window.
CopyLimit(N, cur) == cur

\* The value Math.random() returned for bin `bin` in the draws ds of a window.
DrawAt(ds, bin) == IF bin + 1 \in DOMAIN ds THEN ds[bin + 1] ELSE Zero

\* The effect loop from iteration `bin` on, with the draws ds.
RECURSIVE EffectPass(_, _, _, _, _, _)
EffectPass(v, s, N, buffer, ds, bin) ==
    IF bin >= N THEN buffer
    ELSE EffectPass(v, s, N, EffectIteration(v, s, N, buffer, bin, DrawAt(ds, bin)),
                    ds, bin + 1)

\* The body of the chunk loop as a function of what it reads: the samples the
\* window stores to outputData[start .. start + currentChunkSize - 1].
WindowOutput(v, s, N, inputData, start, ds) ==
    LET w == inverseFFT(EffectPass(v, s, N, forwardFFT(FillWindow(inputData, start, N)),
                                   ds, 0))
        cur == currentChunkSize(start, N, BufLen(inputData))
    IN  [k \in 0 .. cur - 1 |-> Shape(v, s, w[2 * k])]

\* The channel loop body as a function of the channel's input, with the draws
\* ds in every window.
ChannelOutput(v, s, N, inputData, ds) ==
    [k \in 0 .. BufLen(inputData) - 1 |->
        WindowOutput(v, s, N, inputData, (k \div N) * N, ds)[k % N]]

----------------------------------------------------------------------------
(* audioBufferToWav *)

HeaderSize == 44
BytesPerSample == 2
NegativeScale == 32768
PositiveScale == 32767

NaN == <<0, 0>>
PosInfinity == <<1, 0>>
NegInfinity == <<-1, 0>>

IsRat(x) == Len(x) = 2 /\ x[2] > 0
IsNonFinite(x) == Len(x) = 2 /\ x[2] = 0
IsTerm(x) == Len(x) = 4

\* A tanh term against 1 and -1: tanh(s*a)/tanh(a) exceeds 1 exactly when s > 1,
\* and tanh(s*a) alone never does.
TermAbove(x) == x[4] = 1 /\ RLt(One, <<x[1], x[2]>>)
TermBelow(x) == x[4] = 1 /\ RLt(<<x[1], x[2]>>, MinusOne)

\* The clamp without its Math.min(1, .).
MathMinOneMissing(x) == x

\* Math.min(1, x) and Math.max(-1, x).
MathMinOne(x) ==
    CASE x = NaN -> NaN
      [] x = PosInfinity -> One
      [] x = NegInfinity -> x
      [] IsRat(x) -> IF RLt(x, One) THEN x ELSE One
      [] OTHER -> IF TermAbove(x) THEN One ELSE x

MathMaxMinusOne(x) ==
    CASE x = NaN -> NaN
      [] x = NegInfinity -> MinusOne
      [] x = PosInfinity -> x
      [] IsRat(x) -> IF RLt(MinusOne, x) THEN x ELSE MinusOne
      [] OTHER -> IF TermBelow(x) THEN MinusOne ELSE x

\* const sample = Math.max(-1, Math.min(1, data[i]))
ClampSample(x) == MathMaxMinusOne(MathMinOne(x))

\* sample < 0 (false for NaN); a tanh term has the sign of its argument.
IsNegative(x) ==
    CASE IsRat(x) -> RLt(x, Zero)
      [] IsNonFinite(x) -> x = NegInfinity
      [] OTHER -> x[1] < 0

\* The non-negative branch scaling by 0x8000 like the negative one.
PositiveFactorAsNegative == NegativeScale

\* The factor of the non-negative branch of the sample loop.
PositiveFactor == PositiveScale

\* sample < 0 ? sample * 0x8000 : sample * 0x7FFF
ScaleSample(x) ==
    LET f == IF IsNegative(x) THEN NegativeScale ELSE PositiveFactor
    IN  IF IsRat(x) THEN RMul(x, Int2Rat(f)) ELSE x

\* ToInt16 of DataView.setInt16: NaN and the infinities become 0, a number is
\* truncated toward zero and wrapped modulo 2^16 into -32768 .. 32767.
ToInt16(x) ==
    CASE IsNonFinite(x) -> <<0>>
      [] IsRat(x) -> LET u == RTrunc(x) % 65536
                     IN  <<IF u >= 32768 THEN u - 65536 ELSE u>>
      [] OTHER -> x

\* The 16-bit code the sample loop stores for data[i] = x.
EncodeSample(x) == ToInt16(ScaleSample(ClampSample(x)))

\* Little-endian bytes of the set* calls of DataView.
Uint16LE(n) == << <<(n % 65536) % 256>>, <<(n % 65536) \div 256>> >>
Uint32LE(n) ==
    << <<n % 256>>, <<(n \div 256) % 256>>, <<(n \div 65536) % 256>>,
       <<(n \div 16777216) % 256>> >>
Int16LE(code) ==
    IF Len(code) = 1 THEN Uint16LE(code[1])
    ELSE << <<0>> \o code, <<1>> \o code >>

\* The bytes of a string, by char code.
Chars(codes) == [k \in 1 .. Len(codes) |-> <<codes[k]>>]

\* The RIFF chunk size counting the whole file.
RiffSizeWholeFile(length) == HeaderSize + length

\* view.setUint32(4, 36 + length, true)
RiffSize(length) == 36 + length

\* The header stores of audioBufferToWav in program order: <<offset, bytes>>.
\* The strings are given by their char codes: "RIFF", "WAVE", "fmt ", "data".
HeaderFields(C, R, length) ==
    << <<0, Chars(<<82, 73, 70, 70>>)>>,
       <<4, Uint32LE(RiffSize(length))>>,
       <<8, Chars(<<87, 65, 86, 69>>)>>,
       <<12, Chars(<<102, 109, 116, 32>>)>>,
       <<16, Uint32LE(16)>>,
       <<20, Uint16LE(1)>>,
       <<22, Uint16LE(C)>>,
       <<24, Uint32LE(R)>>,
       <<28, Uint32LE(R * C * 2)>>,
       <<32, Uint16LE(C * 2)>>,
       <<34, Uint16LE(16)>>,
       <<36, Chars(<<100, 97, 116, 97>>)>>,
       <<40, Uint32LE(length)>> >>

\* const length = buffer.length * buffer.numberOfChannels * 2
PayloadLength(buf) == buf.length * buf.numberOfChannels * BytesPerSample

\* The stores view.setUint8/16/32(off, ...) make: bytes at off, off+1, ...; a
\* store outside the view changes nothing.
SetBytes(vw, off, bytes) ==
    [k \in DOMAIN vw |->
        IF k >= off /\ k < off + Len(bytes) THEN bytes[k - off + 1] ELSE vw[k]]

\* The store counts after bytes were stored at off .. off+n-1.
CountBytes(cnt, off, n) ==
    [k \in DOMAIN cnt |-> IF k >= off /\ k < off + n THEN cnt[k] + 1 ELSE cnt[k]]

\* The fields (by position in the list) that store to byte k.
FieldsAt(fields, k) ==
    {f \in 1 .. Len(fields) : k >= fields[f][1] /\ k < fields[f][1] + Len(fields[f][2])}

\* The view after the header stores in program order: the last store to a byte
\* stays.
WriteFields(vw, fields) ==
    [k \in DOMAIN vw |->
        LET at == FieldsAt(fields, k)
        IN  IF at = {} THEN vw[k]
            ELSE LET f == CHOOSE x \in at : \A y \in at : y <= x
                 IN  fields[f][2][k - fields[f][1] + 1]]

CountFields(cnt, fields) ==
    [k \in DOMAIN cnt |-> cnt[k] + Cardinality(FieldsAt(fields, k))]

\* Frame-interleaved placement instead of channel after channel.
FlattenIndexInterleaved(c, s, C, L) == s * C + c

\* data.set(buffer.getChannelData(c), buffer.length * c): where sample s of
\* channel c lands in data.
FlattenIndex(c, s, C, L) == L * c + s

FlattenData(buf) ==
    LET C == buf.numberOfChannels
        L == buf.length
    IN  [k \in 0 .. C * L - 1 |->
            LET hit == {cs \in (0 .. C - 1) \X (0 .. L - 1) :
                            FlattenIndex(cs[1], cs[2], C, L) = k}
            IN  IF hit = {} THEN Zero
                ELSE LET cs == CHOOSE x \in hit : \A y \in hit : y[1] <= x[1]
                     IN  buf.data[cs[1]][cs[2]]]

----------------------------------------------------------------------------
(* Bounds and input sets. *)

MaxChannels == 2
MaxLen == 3

\* The largest number of arguments every engine accepts in one call (65536 and
\* more in practice, small here): Math.max(...array) with a longer array may
\* throw a RangeError.
SpreadLimit == 2

\* Window sizes of the model (chunkSize is 2048 in the source).
ChunkSizes == {2, 4}

\* Values Math.random() returns.
Draws == {Zero, <<1, 2>>}

SampleRates == {8000, 44100}

\* Input signals of a channel of length L: silence, an impulse, an alternating
\* full-scale square and a ramp.
NumSignals == 4

Signal(kind, L) ==
    [k \in 0 .. L - 1 |->
        CASE kind = 0 -> Zero
          [] kind = 1 -> IF k = 0 THEN One ELSE Zero
          [] kind = 2 -> IF k % 2 = 0 THEN One ELSE MinusOne
          [] OTHER -> Rat(k + 1, 4)]

\* What decodeAudioData can resolve with: channel c carries signal (first + c).
DecodedBuffers ==
    { [numberOfChannels |-> C, length |-> L, sampleRate |-> 8000,
       data |-> [c \in 0 .. C - 1 |-> Signal((first + c) % NumSignals, L)]] :
      C \in 1 .. MaxChannels, L \in 1 .. MaxLen, first \in 0 .. NumSignals - 1 }

\* The numeric fields a caller passes; the settings surface of the repository
\* (VoiceSettings.tsx) passes no frequencyScrambleRange.
NumericSettings ==
    { [phaseMultiplier |-> One, frequencyShiftMultiplier |-> One, harmonicAmount |-> Zero,
       noiseAmount |-> Zero, timeDistortionAmount |-> One,
       frequencyScrambleRange |-> Undefined],
      [phaseMultiplier |-> <<3, 1>>, frequencyShiftMultiplier |-> <<2, 1>>,
       harmonicAmount |-> Zero, noiseAmount |-> One, timeDistortionAmount |-> <<3, 1>>,
       frequencyScrambleRange |-> <<1, 2>>],
      [phaseMultiplier |-> One, frequencyShiftMultiplier |-> <<5, 1>>,
       harmonicAmount |-> Zero, noiseAmount |-> Zero, timeDistortionAmount |-> <<2, 1>>,
       frequencyScrambleRange |-> <<1, 2>>] }

CallerSettings ==
    { [phaseMultiplier |-> n.phaseMultiplier,
       frequencyShiftMultiplier |-> n.frequencyShiftMultiplier,
       harmonicAmount |-> n.harmonicAmount,
       noiseAmount |-> n.noiseAmount,
       timeDistortionAmount |-> n.timeDistortionAmount,
       frequencyScrambleRange |-> n.frequencyScrambleRange,
       useFrequencyScrambling |-> t[1],
       useAdditionalPhaseDistortion |-> t[2],
       useTimeDistortion |-> t[3]] :
      n \in NumericSettings, t \in BOOLEAN \X BOOLEAN \X BOOLEAN }

NoBuffer == [numberOfChannels |-> 0, length |-> 0, sampleRate |-> 0, data |-> <<>>]

----------------------------------------------------------------------------
(* The steps of anonymizeAudio. *)

\* No forwardFFT is being stepped through and no recursive transform was run.
StepIdle == revIndex = 0 /\ swaps = <<>> /\ recBuffer = <<>>

\* The page as loaded: nothing recorded, no recorder, no click yet.
RecordIdle ==
    /\ isRecording = FALSE
    /\ isProcessing = FALSE
    /\ mediaRecorder = 0
    /\ chunks = <<>>
    /\ recorders = <<>>
    /\ calls = <<>>

Init ==
    /\ StepIdle
    /\ RecordIdle
    /\ variant \in Variants
    /\ chunkSize \in ChunkSizes
    /\ settings \in CallerSettings
    /\ audioBuffer = NoBuffer
    /\ outputData = <<>>
    /\ pc = "start"
    /\ channel = 0
    /\ i = 0
    /\ j = 0
    /\ fft = <<>>
    /\ filled = <<>>
    /\ spectrum = <<>>
    /\ binLog = <<>>
    /\ draws = <<>>
    /\ writes = <<>>
    /\ windows = <<>>
    /\ view = <<>>
    /\ viewWrites = <<>>
    /\ rendered = NoBuffer
    /\ wdata = <<>>
    /\ wi = 0
    /\ offset = 0
    /\ result = "none"

wavVars == <<view, viewWrites, rendered, wdata, wi, offset>>
windowVars == <<fft, filled, spectrum, binLog, draws, j>>

\* anonymizeAudio is called: the settings defaults, then the decode is awaited.
AnonymizeStart ==
    /\ UNCHANGED <<stepVars, recordVars>>
    /\ pc = "start"
    /\ settings' = SettingsOnEntry(variant, settings)
    /\ pc' = "decoding"
    /\ UNCHANGED <<variant, chunkSize, audioBuffer, outputData, channel, i, writes, windows, result>>
    /\ UNCHANGED windowVars
    /\ UNCHANGED wavVars

\* decodeAudioData rejects: anonymizeAudio rejects with that error.
DecodeFail ==
    /\ UNCHANGED <<stepVars, recordVars>>
    /\ pc = "decoding"
    /\ pc' = "failed"
    /\ result' = "error"
    /\ UNCHANGED <<variant, chunkSize, settings, audioBuffer, outputData, channel, i, writes, windows>>
    /\ UNCHANGED windowVars
    /\ UNCHANGED wavVars

\* Every channel's windows filled from the samples of channel 0.
getChannelDataOfFirst(buf, c) == buf.data[0]

\* const inputData = audioBuffer.getChannelData(channel)
getChannelData(buf, c) == buf.data[c]

\* Whether Math.max(...array) / Math.min(...array) can throw for n elements.
SpreadMayThrow(n) == n > SpreadLimit

\* decodeAudioData resolves and the statistics of channel 0 are logged:
\* Math.max(...originalChannel) throws, anonymizeAudio rejects.
OriginalStatsThrow ==
    /\ UNCHANGED <<stepVars, recordVars>>
    /\ pc = "decoding"
    /\ \E buf \in DecodedBuffers :
        /\ SpreadMayThrow(buf.length)
        /\ audioBuffer' = buf
    /\ pc' = "failed"
    /\ result' = "error"
    /\ UNCHANGED <<variant, chunkSize, settings, outputData, channel, i, writes, windows>>
    /\ UNCHANGED windowVars
    /\ UNCHANGED wavVars

\* The statistics of a channel are logged before its first window:
\* Math.max(...inputData) throws.
ChannelStatsThrow ==
    /\ UNCHANGED <<stepVars, recordVars>>
    /\ pc = "fill"
    /\ i = 0
    /\ SpreadMayThrow(audioBuffer.length)
    /\ pc' = "failed"
    /\ result' = "error"
    /\ UNCHANGED <<variant, chunkSize, settings, audioBuffer, outputData, channel, i,
                   writes, windows>>
    /\ UNCHANGED windowVars
    /\ UNCHANGED wavVars

\* The statistics of the rendered buffer are logged before audioBufferToWav:
\* Math.max(...renderedBuffer.getChannelData(0)) throws.
FinalStatsThrow ==
    /\ UNCHANGED <<stepVars, recordVars>>
    /\ pc = "wavHeader"
    /\ SpreadMayThrow(rendered.length)
    /\ pc' = "failed"
    /\ result' = "error"
    /\ UNCHANGED <<variant, chunkSize, settings, audioBuffer, outputData, channel, i,
                   writes, windows>>
    /\ UNCHANGED windowVars
    /\ UNCHANGED wavVars

\* The loops ending after the last window of the first channel.
AfterWindowOneChannel(c, start, N, buf) ==
    IF start + N < buf.length THEN [channel |-> c, i |-> start + N, pc |-> "fill"]
    ELSE [channel |-> c + 1, i |-> 0, pc |-> "rendering"]

\* Where the loops stand after the window starting at `start` of channel c.
AfterWindow(c, start, N, buf) ==
    IF start + N < buf.length THEN [channel |-> c, i |-> start + N, pc |-> "fill"]
    ELSE IF c + 1 < buf.numberOfChannels /\ buf.length > 0
         THEN [channel |-> c + 1, i |-> 0, pc |-> "fill"]
         ELSE [channel |-> c + 1, i |-> 0, pc |-> "rendering"]

\* decodeAudioData resolves; createBuffer makes the zeroed output buffer.
DecodeOk ==
    /\ UNCHANGED <<stepVars, recordVars>>
    /\ pc = "decoding"
    /\ \E buf \in DecodedBuffers :
        /\ audioBuffer' = buf
        /\ outputData' = [c \in 0 .. buf.numberOfChannels - 1 |->
                              [k \in 0 .. buf.length - 1 |-> Zero]]
        /\ writes' = [c \in 0 .. buf.numberOfChannels - 1 |->
                          [k \in 0 .. buf.length + chunkSize - 1 |-> 0]]
        /\ windows' = [c \in 0 .. buf.numberOfChannels - 1 |-> 0]
    /\ channel' = 0
    /\ i' = 0
    /\ pc' = "fill"
    /\ UNCHANGED <<variant, chunkSize, settings, result>>
    /\ UNCHANGED windowVars
    /\ UNCHANGED wavVars

\* const fft = new Float32Array(chunkSize * 2) and the two fill loops.
Fill ==
    /\ UNCHANGED <<stepVars, recordVars>>
    /\ pc = "fill"
    /\ fft' = FillWindow(getChannelData(audioBuffer, channel), i, chunkSize)
    /\ filled' = fft'
    /\ spectrum' = <<>>
    /\ binLog' = <<>>
    /\ draws' = <<>>
    /\ j' = 0
    /\ pc' = "forward"
    /\ UNCHANGED <<variant, chunkSize, settings, audioBuffer, outputData, channel, i,
                   writes, result>>
    /\ windows' = [windows EXCEPT ![channel] = @ + 1]
    /\ UNCHANGED wavVars

\* this.forwardFFT(fft)
Forward ==
    /\ UNCHANGED <<stepVars, recordVars>>
    /\ pc = "forward"
    /\ fft' = forwardFFT(fft)
    /\ spectrum' = fft'
    /\ j' = 0
    /\ pc' = "effect"
    /\ UNCHANGED <<variant, chunkSize, settings, audioBuffer, outputData, channel, i,
                   writes, windows, result, filled, binLog, draws>>
    /\ UNCHANGED wavVars

\* One iteration of "for (let j = 0; j < chunkSize; j++)" of the effect pass.
EffectBin ==
    /\ UNCHANGED <<stepVars, recordVars>>
    /\ pc = "effect"
    /\ j < chunkSize
    /\ \E r \in Draws :
        /\ fft' = EffectIteration(variant, settings, chunkSize, fft, j, r)
        /\ draws' = IF EffectsApply(variant, settings) THEN Append(draws, r) ELSE draws
    /\ binLog' = Append(binLog, EffectRecord(variant, settings, chunkSize, fft, j))
    /\ j' = j + 1
    /\ pc' = IF j + 1 < chunkSize THEN "effect" ELSE "inverse"
    /\ UNCHANGED <<variant, chunkSize, settings, audioBuffer, outputData, channel, i,
                   writes, windows, result, filled, spectrum>>
    /\ UNCHANGED wavVars

\* this.inverseFFT(fft)
Inverse ==
    /\ UNCHANGED <<stepVars, recordVars>>
    /\ pc = "inverse"
    /\ fft' = inverseFFT(fft)
    /\ pc' = "copy"
    /\ UNCHANGED <<variant, chunkSize, settings, audioBuffer, outputData, channel, i,
                   writes, windows, result, filled, spectrum, binLog, draws, j>>
    /\ UNCHANGED wavVars

\* The copy loop with the time-domain shaper, then the loop increments; the
\* window (const fft of the loop body) and what was recorded about it end here.
Copy ==
    /\ UNCHANGED <<stepVars, recordVars>>
    /\ pc = "copy"
    /\ LET cur == currentChunkSize(i, chunkSize, audioBuffer.length)
           n == CopyLimit(chunkSize, cur)
           next == AfterWindow(channel, i, chunkSize, audioBuffer)
       IN  /\ outputData' =
                [outputData EXCEPT ![channel] =
                    [k \in DOMAIN @ |->
                        IF k >= i /\ k < i + n
                        THEN Shape(variant, settings, fft[2 * (k - i)]) ELSE @[k]]]
           /\ writes' =
                [writes EXCEPT ![channel] =
                    [k \in DOMAIN @ |-> IF k >= i /\ k < i + n THEN @[k] + 1 ELSE @[k]]]
           /\ channel' = next.channel
           /\ i' = next.i
           /\ pc' = next.pc
    /\ fft' = <<>>
    /\ filled' = <<>>
    /\ spectrum' = <<>>
    /\ binLog' = <<>>
    /\ draws' = <<>>
    /\ j' = 0
    /\ UNCHANGED <<variant, chunkSize, settings, audioBuffer, windows, result>>
    /\ UNCHANGED wavVars

\* startRendering resolves: a single buffer source rendered at the buffer's own
\* rate and length yields the buffer's samples.
Render ==
    /\ UNCHANGED <<stepVars, recordVars>>
    /\ pc = "rendering"
    /\ rendered' = [audioBuffer EXCEPT !.data = outputData]
    /\ pc' = "wavHeader"
    /\ UNCHANGED <<variant, chunkSize, settings, audioBuffer, outputData, channel, i,
                   writes, windows, result, view, viewWrites, wdata, wi, offset>>
    /\ UNCHANGED windowVars

pipeVars == <<variant, chunkSize, settings, audioBuffer, outputData, channel, i, writes, windows>>

\* audioBufferToWav up to the sample loop: the view, the header, data.
WavHeader ==
    /\ UNCHANGED <<stepVars, recordVars>>
    /\ pc = "wavHeader"
    /\ LET length == PayloadLength(rendered)
           fields == HeaderFields(rendered.numberOfChannels, rendered.sampleRate, length)
           blank == [k \in 0 .. HeaderSize + length - 1 |-> <<0>>]
           none == [k \in 0 .. HeaderSize + length + BytesPerSample - 1 |-> 0]
       IN  /\ view' = WriteFields(blank, fields)
           /\ viewWrites' = CountFields(none, fields)
    /\ wdata' = FlattenData(rendered)
    /\ offset' = HeaderSize
    /\ wi' = 0
    /\ pc' = "wavSamples"
    /\ UNCHANGED <<rendered, result>>
    /\ UNCHANGED pipeVars
    /\ UNCHANGED windowVars

\* The offset of the store after the one at off.
NextOffset(off) == off + BytesPerSample

\* One iteration of "for (let i = 0; i < data.length; i++, offset += 2)".
WavSample ==
    /\ UNCHANGED <<stepVars, recordVars>>
    /\ pc = "wavSamples"
    /\ wi < BufLen(wdata)
    /\ LET bytes == Int16LE(EncodeSample(wdata[wi]))
       IN  /\ view' = SetBytes(view, offset, bytes)
           /\ viewWrites' = CountBytes(viewWrites, offset, Len(bytes))
    /\ IF offset + BytesPerSample > BufLen(view)
       THEN pc' = "failed" /\ result' = "error"
       ELSE pc' = pc /\ result' = result
    /\ wi' = wi + 1
    /\ offset' = NextOffset(offset)
    /\ UNCHANGED <<rendered, wdata>>
    /\ UNCHANGED pipeVars
    /\ UNCHANGED windowVars

\* return new Blob([view], { type: 'audio/wav' })
WavBlob ==
    /\ UNCHANGED <<stepVars, recordVars>>
    /\ pc = "wavSamples"
    /\ wi >= BufLen(wdata)
    /\ pc' = "done"
    /\ result' = "blob"
    /\ UNCHANGED wavVars
    /\ UNCHANGED pipeVars
    /\ UNCHANGED windowVars

Next ==
    \/ AnonymizeStart
    \/ DecodeFail
    \/ OriginalStatsThrow
    \/ DecodeOk
    \/ ChannelStatsThrow
    \/ Fill
    \/ Forward
    \/ EffectBin
    \/ Inverse
    \/ Copy
    \/ Render
    \/ FinalStatsThrow
    \/ WavHeader
    \/ WavSample
    \/ WavBlob

Spec == Init /\ [][Next]_vars

----------------------------------------------------------------------------
(* SpecFFT: forwardFFT followed by inverseFFT on a real window. *)

MaxAmp == 1

FFTSizes == {1, 2, 4}

RealWindows(N) ==
    { [k \in 0 .. 2 * N - 1 |-> IF k % 2 = 0 THEN Int2Rat(r[k \div 2]) ELSE Zero] :
      r \in [0 .. N - 1 -> -MaxAmp .. MaxAmp] }

InitFFT ==
    /\ StepIdle
    /\ RecordIdle
    /\ variant = "gated"
    /\ chunkSize \in FFTSizes
    /\ settings \in {c \in CallerSettings : ~AnyToggle(c) /\ c.phaseMultiplier = One}
    /\ audioBuffer = NoBuffer
    /\ outputData = <<>>
    /\ pc = "forward"
    /\ channel = 0
    /\ i = 0
    /\ j = 0
    /\ fft \in RealWindows(chunkSize)
    /\ filled = fft
    /\ spectrum = <<>>
    /\ binLog = <<>>
    /\ draws = <<>>
    /\ writes = <<>>
    /\ windows = <<>>
    /\ view = <<>>
    /\ viewWrites = <<>>
    /\ rendered = NoBuffer
    /\ wdata = <<>>
    /\ wi = 0
    /\ offset = 0
    /\ result = "none"

\* this.forwardFFT(fft) directly followed by this.inverseFFT(fft).
TransformForward ==
    /\ UNCHANGED <<stepVars, recordVars>>
    /\ pc = "forward"
    /\ fft' = forwardFFT(fft)
    /\ spectrum' = fft'
    /\ pc' = "inverse"
    /\ UNCHANGED <<filled, binLog, draws, j, result>>
    /\ UNCHANGED pipeVars
    /\ UNCHANGED wavVars

TransformInverse ==
    /\ UNCHANGED <<stepVars, recordVars>>
    /\ pc = "inverse"
    /\ fft' = inverseFFT(fft)
    /\ pc' = "transformed"
    /\ UNCHANGED <<filled, spectrum, binLog, draws, j, result>>
    /\ UNCHANGED pipeVars
    /\ UNCHANGED wavVars

NextFFT == TransformForward \/ TransformInverse

SpecFFT == InitFFT /\ [][NextFFT]_vars

----------------------------------------------------------------------------
(* SpecDFT: forwardFFT and inverseFFT on a complex window. *)

NumComplex == 3

\* Complex samples (re, im) a window is filled with; the first NumComplex are used.
ComplexSamples ==
    << <<Zero, Zero>>, <<One, Zero>>, <<Zero, One>>, <<MinusOne, <<2, 1>>>>,
       <<<<1, 2>>, MinusOne>>, <<<<-3, 1>>, <<-1, 4>>>> >>

ComplexWindows(N) ==
    { [k \in 0 .. 2 * N - 1 |-> ComplexSamples[c[k \div 2]][(k % 2) + 1]] :
      c \in [0 .. N - 1 -> 1 .. Min(NumComplex, Len(ComplexSamples))] }

InitDFT ==
    /\ StepIdle
    /\ RecordIdle
    /\ variant = "gated"
    /\ chunkSize \in FFTSizes
    /\ settings \in {c \in CallerSettings : ~AnyToggle(c) /\ c.phaseMultiplier = One}
    /\ audioBuffer = NoBuffer
    /\ outputData = <<>>
    /\ pc = "forward"
    /\ channel = 0
    /\ i = 0
    /\ j = 0
    /\ fft \in ComplexWindows(chunkSize)
    /\ filled = fft
    /\ spectrum = <<>>
    /\ binLog = <<>>
    /\ draws = <<>>
    /\ writes = <<>>
    /\ windows = <<>>
    /\ view = <<>>
    /\ viewWrites = <<>>
    /\ rendered = NoBuffer
    /\ wdata = <<>>
    /\ wi = 0
    /\ offset = 0
    /\ result = "none"

SpecDFT == InitDFT /\ [][NextFFT]_vars

----------------------------------------------------------------------------
(* SpecRecursive: the recursive forwardFFT of the earlier variants           *)
(* (unnamed/part_000 lines 621-651, components/VoiceSettings.tsx lines       *)
(* 318-345) and the iterative one, on the same interleaved buffer.  Buffers  *)
(* of 2 and 4 elements: theta = -2*pi*k/n is a quarter turn for n <= 4.      *)

RecursiveSizes == {1, 2}

\* Interleaved buffers of N complex samples with integer components.
InterleavedBuffers(N) ==
    [0 .. 2 * N - 1 -> {Int2Rat(a) : a \in -MaxAmp .. MaxAmp}]

\* const n = buffer.length; if (n <= 1) return buffer; even[i] = buffer[2*i],
\* odd[i] = buffer[2*i + 1]; both transformed; buffer[k] = even[k] + t and
\* buffer[k + halfN] = even[k] - t with t = re * odd[k] - im * odd[k].
RECURSIVE forwardFFTRecursive(_)
forwardFFTRecursive(buffer) ==
    LET n == BufLen(buffer)
    IN  IF n <= 1 THEN buffer
        ELSE LET halfN == n \div 2
                 even == forwardFFTRecursive([k \in 0 .. halfN - 1 |-> buffer[2 * k]])
                 odd == forwardFFTRecursive([k \in 0 .. halfN - 1 |-> buffer[2 * k + 1]])
                 t(k) == LET re == CosQ(TwiddleQ(n, k))
                             im == SinQ(TwiddleQ(n, k))
                         IN  RSub(RMul(re, odd[k]), RMul(im, odd[k]))
             IN  [k \in 0 .. n - 1 |->
                    IF k < halfN THEN RAdd(even[k], t(k))
                    ELSE RSub(even[k - halfN], t(k - halfN))]

InitRecursive ==
    /\ revIndex = 0
    /\ swaps = <<>>
    /\ recBuffer = <<>>
    /\ RecordIdle
    /\ variant = "gated"
    /\ chunkSize \in RecursiveSizes
    /\ settings \in {c \in CallerSettings : ~AnyToggle(c) /\ c.phaseMultiplier = One}
    /\ audioBuffer = NoBuffer
    /\ outputData = <<>>
    /\ pc = "recursive"
    /\ channel = 0
    /\ i = 0
    /\ j = 0
    /\ fft \in InterleavedBuffers(chunkSize)
    /\ filled = fft
    /\ spectrum = <<>>
    /\ binLog = <<>>
    /\ draws = <<>>
    /\ writes = <<>>
    /\ windows = <<>>
    /\ view = <<>>
    /\ viewWrites = <<>>
    /\ rendered = NoBuffer
    /\ wdata = <<>>
    /\ wi = 0
    /\ offset = 0
    /\ result = "none"

\* The recursive forwardFFT applied to a copy of the buffer.
RecursiveForward ==
    /\ pc = "recursive"
    /\ recBuffer' = forwardFFTRecursive(fft)
    /\ pc' = "forward"
    /\ UNCHANGED <<revIndex, swaps, fft, filled, spectrum, binLog, draws, j, result>>
    /\ UNCHANGED recordVars
    /\ UNCHANGED pipeVars
    /\ UNCHANGED wavVars

NextRecursive == RecursiveForward \/ TransformForward \/ TransformInverse

SpecRecursive == InitRecursive /\ [][NextRecursive]_vars

----------------------------------------------------------------------------
(* SpecBits: the bit-reversal loop of forwardFFT, one iteration per step. *)

BitSizes == {1, 2, 4, 8, 16}

NumTagged == 4

\* A window whose 2N components are pairwise different: component k holds k + b.
TaggedWindow(N, b) == [k \in 0 .. 2 * N - 1 |-> Int2Rat(k + b)]

InitBits ==
    /\ revIndex = 0
    /\ swaps = <<>>
    /\ recBuffer = <<>>
    /\ RecordIdle
    /\ variant = "gated"
    /\ chunkSize \in BitSizes
    /\ settings \in {c \in CallerSettings :
                        ~AnyToggle(c) /\ c.frequencyScrambleRange = Undefined}
    /\ audioBuffer = NoBuffer
    /\ outputData = <<>>
    /\ pc = "bitReversal"
    /\ channel = 0
    /\ i = 0
    /\ j = 0
    /\ fft \in {TaggedWindow(chunkSize, b) : b \in 0 .. NumTagged - 1}
    /\ filled = fft
    /\ spectrum = <<>>
    /\ binLog = <<>>
    /\ draws = <<>>
    /\ writes = <<>>
    /\ windows = <<>>
    /\ view = <<>>
    /\ viewWrites = <<>>
    /\ rendered = NoBuffer
    /\ wdata = <<>>
    /\ wi = 0
    /\ offset = 0
    /\ result = "none"

\* One iteration of "for (let i = 0; i < N; i++)" of forwardFFT.
SwapStep ==
    /\ pc = "bitReversal"
    /\ revIndex < chunkSize
    /\ LET r == reverseBits(revIndex, Log2(chunkSize))
       IN  IF SwapGuard(r, revIndex)
           THEN /\ fft' = SwapComplex(fft, revIndex, r)
                /\ swaps' = Append(swaps, <<revIndex, r>>)
           ELSE UNCHANGED <<fft, swaps>>
    /\ revIndex' = revIndex + 1
    /\ pc' = IF revIndex + 1 < chunkSize THEN "bitReversal" ELSE "butterflies"
    /\ UNCHANGED <<recBuffer, filled, spectrum, binLog, draws, j, result>>
    /\ UNCHANGED recordVars
    /\ UNCHANGED pipeVars
    /\ UNCHANGED wavVars

NextBits == SwapStep

SpecBits == InitBits /\ [][NextBits]_vars

----------------------------------------------------------------------------
(* SpecRecord: Index.handleRecord with AudioProcessor.startRecording and     *)
(* stopRecording (src/lib/audioProcessor.ts lines 17-45 and 466-483; the     *)
(* same code in unnamed/part_000 lines 17-41 and unnamed/part_001 lines      *)
(* 19-34).  A step is a click on the record button or the settling of        *)
(* something a handler awaits; anonymizeAudio is one awaited call that       *)
(* resolves or rejects.  A MediaRecorder started without a timeslice         *)
(* delivers its data once, when it stops, and fires dataavailable and stop   *)
(* in one turn; it stops when stop() is called or when the tracks of its     *)
(* stream end.  A data chunk is named by the recorder that delivered it.     *)

\* The number of clicks on the record button in a run.
MaxClicks == 4

\* Everything that belongs to anonymizeAudio and the transforms.
transformVars == <<pipeVars, windowVars, wavVars, stepVars, pc, result>>

InitRecord ==
    /\ StepIdle
    /\ RecordIdle
    /\ variant = "gated"
    /\ chunkSize = 2
    /\ settings \in {c \in CallerSettings :
                        ~AnyToggle(c) /\ c.frequencyScrambleRange = Undefined}
    /\ audioBuffer = NoBuffer
    /\ outputData = <<>>
    /\ pc = "idle"
    /\ channel = 0
    /\ i = 0
    /\ j = 0
    /\ fft = <<>>
    /\ filled = <<>>
    /\ spectrum = <<>>
    /\ binLog = <<>>
    /\ draws = <<>>
    /\ writes = <<>>
    /\ windows = <<>>
    /\ view = <<>>
    /\ viewWrites = <<>>
    /\ rendered = NoBuffer
    /\ wdata = <<>>
    /\ wi = 0
    /\ offset = 0
    /\ result = "none"

\* An invocation of handleRecord: the branch it took, the await it stands at,
\* the promise of stopRecording, the recorder it created or stopped, the blob.
NewCall(branch, at, promise, r) ==
    [branch |-> branch, pc |-> at, promise |-> promise, recorder |-> r, blob |-> <<>>]

\* this.mediaRecorder = new MediaRecorder(stream), without the assignment.
StoredRecorderNone(r) == 0

\* this.mediaRecorder = new MediaRecorder(stream): what the field holds after.
StoredRecorder(r) == r

\* What mediaRecorder.stop() does on a recorder that is already inactive: it
\* throws InvalidStateError, which rejects the promise, or (later editions of
\* the recording API) returns without queuing anything.
StopOnInactive == {"rejected", "pending"}

\* A click with isRecording false: handleRecord calls startRecording, which
\* awaits getUserMedia.
ClickStart ==
    /\ ~isProcessing
    /\ ~isRecording
    /\ Len(calls) < MaxClicks
    /\ calls' = Append(calls, NewCall("start", "getUserMedia", "none", 0))
    /\ UNCHANGED <<isRecording, isProcessing, mediaRecorder, chunks, recorders>>
    /\ UNCHANGED transformVars

\* getUserMedia resolves: the recorder is created, stored and started;
\* startRecording resolves and handleRecord goes on to setIsRecording(true).
MediaGranted ==
    /\ \E c \in 1 .. Len(calls) :
        /\ calls[c].pc = "getUserMedia"
        /\ LET r == Len(recorders) + 1
           IN  /\ recorders' = Append(recorders,
                                    [state |-> "recording", onstop |-> 0, ended |-> "no"])
               /\ mediaRecorder' = StoredRecorder(r)
               /\ calls' = [calls EXCEPT ![c].pc = "done", ![c].recorder = r]
    /\ isRecording' = TRUE
    /\ UNCHANGED <<isProcessing, chunks>>
    /\ UNCHANGED transformVars

\* getUserMedia rejects: startRecording rethrows and handleRecord rejects.
MediaDenied ==
    /\ \E c \in 1 .. Len(calls) :
        /\ calls[c].pc = "getUserMedia"
        /\ calls' = [calls EXCEPT ![c].pc = "failed"]
    /\ UNCHANGED <<isRecording, isProcessing, mediaRecorder, chunks, recorders>>
    /\ UNCHANGED transformVars

\* A click with isRecording true: setIsProcessing(true), then the executor of
\* stopRecording: return if there is no recorder, else set onstop and stop().
ClickStop ==
    /\ ~isProcessing
    /\ isRecording
    /\ Len(calls) < MaxClicks
    /\ isProcessing' = TRUE
    /\ LET c == Len(calls) + 1
           r == mediaRecorder
       IN  IF r = 0
           THEN /\ calls' = Append(calls, NewCall("stop", "stopRecording", "pending", 0))
                /\ UNCHANGED recorders
           ELSE IF recorders[r].state = "recording"
           THEN /\ calls' = Append(calls, NewCall("stop", "stopRecording", "pending", r))
                /\ recorders' = [recorders EXCEPT ![r].onstop = c, ![r].state = "stopping"]
           ELSE /\ \E outcome \in StopOnInactive :
                    calls' = Append(calls,
                                NewCall("stop",
                                        IF outcome = "rejected" THEN "failed"
                                        ELSE "stopRecording",
                                        outcome, r))
                /\ recorders' = [recorders EXCEPT ![r].onstop = c]
    /\ UNCHANGED <<isRecording, mediaRecorder, chunks>>
    /\ UNCHANGED transformVars

\* Recorder r stops gathering: ondataavailable pushes its data to this.chunks,
\* then onstop, if set, makes the blob of this.chunks, empties this.chunks and
\* resolves, and handleRecord goes on to call anonymizeAudio.
Deliver(r, how) ==
    LET pushed == Append(chunks, r)
        c == recorders[r].onstop
    IN  /\ recorders' = [recorders EXCEPT ![r].state = "inactive", ![r].ended = how]
        /\ IF c = 0
           THEN chunks' = pushed /\ UNCHANGED calls
           ELSE /\ chunks' = <<>>
                /\ calls' = [calls EXCEPT ![c].blob = pushed, ![c].promise = "resolved",
                                           ![c].pc = "anonymizeAudio"]

\* The events queued by mediaRecorder.stop() fire.
StopEvent ==
    /\ \E r \in 1 .. Len(recorders) :
        /\ recorders[r].state = "stopping"
        /\ Deliver(r, "stop")
    /\ UNCHANGED <<isRecording, isProcessing, mediaRecorder>>
    /\ UNCHANGED transformVars

\* The tracks of the stream of a recording recorder end (the microphone is
\* unplugged or its permission revoked): the recorder stops by itself.
TrackEnded ==
    /\ \E r \in 1 .. Len(recorders) :
        /\ recorders[r].state = "recording"
        /\ Deliver(r, "track")
    /\ UNCHANGED <<isRecording, isProcessing, mediaRecorder>>
    /\ UNCHANGED transformVars

\* anonymizeAudio resolves: setProcessedBlob, setIsRecording(false),
\* setIsProcessing(false).
AnonymizeResolves ==
    /\ \E c \in 1 .. Len(calls) :
        /\ calls[c].pc = "anonymizeAudio"
        /\ calls' = [calls EXCEPT ![c].pc = "done"]
    /\ isRecording' = FALSE
    /\ isProcessing' = FALSE
    /\ UNCHANGED <<mediaRecorder, chunks, recorders>>
    /\ UNCHANGED transformVars

\* anonymizeAudio rejects (decodeAudioData fails on the recorded blob):
\* handleRecord rejects at the await, the statements after it do not run.
AnonymizeRejects ==
    /\ \E c \in 1 .. Len(calls) :
        /\ calls[c].pc = "anonymizeAudio"
        /\ calls' = [calls EXCEPT ![c].pc = "failed"]
    /\ UNCHANGED <<isRecording, isProcessing, mediaRecorder, chunks, recorders>>
    /\ UNCHANGED transformVars

NextRecord ==
    \/ ClickStart
    \/ MediaGranted
    \/ MediaDenied
    \/ ClickStop
    \/ StopEvent
    \/ TrackEnded
    \/ AnonymizeResolves
    \/ AnonymizeRejects

SpecRecord == InitRecord /\ [][NextRecord]_vars

\* What the browser does without the user: promises settle, queued events fire.
Settle == MediaGranted \/ MediaDenied \/ StopEvent \/ AnonymizeResolves \/ AnonymizeRejects

SpecRecordLive == InitRecord /\ [][NextRecord]_vars /\ WF_vars(Settle)

----------------------------------------------------------------------------
(* SpecWav: audioBufferToWav on any rendered buffer, non-finite samples included. *)

WavSamples ==
    << NegInfinity, <<-2, 1>>, MinusOne, <<-3, 4>>, <<-1, 65536>>, Zero, <<1, 65536>>,
       <<1, 2>>, One, <<5, 4>>, PosInfinity, NaN >>

\* Buffers whose samples run through WavSamples from any starting point.
RenderedBuffers ==
    { [numberOfChannels |-> C, length |-> L, sampleRate |-> R,
       data |-> [c \in 0 .. C - 1 |->
                    [k \in 0 .. L - 1 |->
                        WavSamples[((first + c * L + k) % Len(WavSamples)) + 1]]]] :
      C \in 1 .. MaxChannels, L \in 1 .. MaxLen, R \in SampleRates,
      first \in 0 .. Len(WavSamples) - 1 }

InitWav ==
    /\ StepIdle
    /\ RecordIdle
    /\ variant = "gated"
    /\ chunkSize \in {2}
    /\ settings \in {c \in CallerSettings : ~AnyToggle(c) /\ c.phaseMultiplier = One}
    /\ audioBuffer = NoBuffer
    /\ outputData = <<>>
    /\ pc = "wavHeader"
    /\ channel = 0
    /\ i = 0
    /\ j = 0
    /\ fft = <<>>
    /\ filled = <<>>
    /\ spectrum = <<>>
    /\ binLog = <<>>
    /\ draws = <<>>
    /\ writes = <<>>
    /\ windows = <<>>
    /\ view = <<>>
    /\ viewWrites = <<>>
    /\ rendered \in RenderedBuffers
    /\ wdata = <<>>
    /\ wi = 0
    /\ offset = 0
    /\ result = "none"

NextWav == WavHeader \/ WavSample \/ WavBlob

SpecWav == InitWav /\ [][NextWav]_vars

----------------------------------------------------------------------------
(* Claims. *)

Channels == 0 .. audioBuffer.numberOfChannels - 1
Decoded == pc \notin {"start", "decoding", "failed"} /\ audioBuffer # NoBuffer

\* C1: the chunk loop stores to every output index in [0, L) exactly once and to
\* no index >= L, so the output channel has exactly the input length, also when
\* L is not a multiple of the window size.
C1_EveryIndexOnce ==
    Decoded =>
        \A c \in Channels :
            /\ BufLen(outputData[c]) = audioBuffer.length
            /\ \A k \in DOMAIN writes[c] :
                /\ k >= audioBuffer.length => writes[c][k] = 0
                /\ writes[c][k] <= 1
                /\ (c < channel /\ k < audioBuffer.length) => writes[c][k] = 1

C1_Witness ==
    /\ pc = "rendering"
    /\ audioBuffer.length > chunkSize
    /\ audioBuffer.length % chunkSize # 0
    /\ \A c \in Channels : \A k \in 0 .. audioBuffer.length - 1 : writes[c][k] = 1

\* C2: a channel of length L gets exactly ceil(L/N) windows; window number w
\* starts at w*N and, before the forward transform, holds the input samples
\* [w*N, min((w+1)*N, L)) in order in its first real parts, zero in every other
\* real part and in every imaginary part.
C2_WindowContents ==
    Decoded =>
        /\ pc = "forward" =>
            /\ i = (windows[channel] - 1) * chunkSize
            /\ i < audioBuffer.length
            /\ BufLen(fft) = 2 * chunkSize
            /\ \A k \in 0 .. chunkSize - 1 :
                /\ fft[2 * k] = IF i + k < audioBuffer.length
                                THEN audioBuffer.data[channel][i + k] ELSE Zero
                /\ fft[2 * k + 1] = Zero
        /\ \A c \in Channels :
            c < channel =>
                windows[c] = (audioBuffer.length + chunkSize - 1) \div chunkSize

C2_Witness ==
    /\ pc = "forward"
    /\ i > 0
    /\ i + chunkSize > audioBuffer.length
    /\ fft[0] # Zero
    /\ fft[2 * chunkSize - 2] = Zero

\* C3: inverseFFT(forwardFFT(w)) gives back w, real parts restored and imaginary
\* parts zero, for every real window w of 1, 2 or 4 samples.
C3_RoundTrip == pc = "transformed" => fft = filled

C3_Witness ==
    /\ pc = "transformed"
    /\ chunkSize = 4
    /\ fft = filled
    /\ spectrum # filled
    /\ \E k \in 0 .. 3 : fft[2 * k] = MinusOne

\* C4: with the three toggles false the effect pass leaves every bin equal to its
\* forward-transform value.
C4_IdentityWhenAllOff ==
    (pc \in {"effect", "inverse"} /\ ~AnyToggle(settings)) =>
        \A b \in 0 .. j - 1 :
            fft[2 * b] = spectrum[2 * b] /\ fft[2 * b + 1] = spectrum[2 * b + 1]

\* C5: with the three toggles false, iteration j of the effect pass stores to no
\* bin other than j and negates no bin.
C5_IdentityDestination ==
    (pc \in {"effect", "inverse"} /\ ~AnyToggle(settings)) =>
        /\ \A k \in 1 .. Len(binLog) :
            /\ binLog[k].wrote \subseteq {k - 1}
            /\ variant = "scrambleFix" => binLog[k].wrote = {k - 1}
            /\ binLog[k].negated = {}
        /\ pc = "effect" =>
            \A b \in j .. chunkSize - 1 :
                fft[2 * b] = spectrum[2 * b] /\ fft[2 * b + 1] = spectrum[2 * b + 1]

C5_Witness ==
    /\ pc = "inverse"
    /\ ~AnyToggle(settings)
    /\ variant = "scrambleFix"
    /\ chunkSize = 4
    /\ Len(binLog) = 4
    /\ spectrum[2] # Zero
    /\ settings.frequencyScrambleRange = <<1, 2>>

\* The settings and bin contents another run may have.
OtherRuns == {SettingsOnEntry(variant, c) : c \in CallerSettings}
ProbeBins == {<<Zero, Zero>>, <<One, Zero>>, <<<<-3, 4>>, <<5, 1>>>>}

\* C6 as stated: for fixed N and frequencyScrambleRange the bin that source bin j
\* is stored at is the same whatever the bin holds and whatever the other
\* settings are.
C6_TargetOfIndexAlone ==
    \A k \in 1 .. Len(binLog) :
        \A s2 \in OtherRuns : \A z \in ProbeBins :
            s2.frequencyScrambleRange = settings.frequencyScrambleRange =>
                binLog[k].wrote \subseteq
                    {targetBin(variant, s2, chunkSize, k - 1, z[1], z[2])}

\* C6 amended: for fixed N, frequencyScrambleRange and useFrequencyScrambling the
\* bin that source bin j is stored at is the same whatever the bin holds and
\* whatever the other settings are.
C6_TargetOfIndexAndToggle ==
    \A k \in 1 .. Len(binLog) :
        \A s2 \in OtherRuns : \A z \in ProbeBins :
            (/\ s2.frequencyScrambleRange = settings.frequencyScrambleRange
             /\ s2.useFrequencyScrambling = settings.useFrequencyScrambling) =>
                binLog[k].wrote \subseteq
                    {targetBin(variant, s2, chunkSize, k - 1, z[1], z[2])}

C6_Witness ==
    /\ pc = "inverse"
    /\ settings.useFrequencyScrambling
    /\ chunkSize = 4
    /\ \E k \in 1 .. Len(binLog) : binLog[k].wrote # {k - 1}
    /\ \E k \in 0 .. 3 : spectrum[2 * k] # Zero

\* Little-endian reads of the finished view.
U8(at) == view[at][1]
U16(at) == U8(at) + 256 * U8(at + 1)
U32(at) == U8(at) + 256 * U8(at + 1) + 65536 * U8(at + 2) + 16777216 * U8(at + 3)
Str4(at) == <<U8(at), U8(at + 1), U8(at + 2), U8(at + 3)>>
Int16At(k) ==
    LET u == U16(HeaderSize + 2 * k) IN IF u >= 32768 THEN u - 65536 ELSE u

\* C7: the blob has 44 + 2*C*L bytes and the header is "RIFF", 36 + 2*C*L,
\* "WAVE", "fmt ", 16, 1, C, R, 2*R*C, 2*C, 16, "data", 2*C*L, little-endian,
\* every header byte stored exactly once.
C7_Header ==
    pc \in {"wavSamples", "done"} =>
        LET C == rendered.numberOfChannels
            L == rendered.length
            R == rendered.sampleRate
        IN  /\ BufLen(view) = 44 + 2 * C * L
            /\ Str4(0) = <<82, 73, 70, 70>>
            /\ U32(4) = 36 + 2 * C * L
            /\ Str4(8) = <<87, 65, 86, 69>>
            /\ Str4(12) = <<102, 109, 116, 32>>
            /\ U32(16) = 16
            /\ U16(20) = 1
            /\ U16(22) = C
            /\ U32(24) = R
            /\ U32(28) = R * C * 2
            /\ U16(32) = C * 2
            /\ U16(34) = 16
            /\ Str4(36) = <<100, 97, 116, 97>>
            /\ U32(40) = 2 * C * L
            /\ \A k \in 0 .. 43 : viewWrites[k] = 1

C7_Witness ==
    /\ pc = "done"
    /\ result = "blob"
    /\ rendered.numberOfChannels = 2
    /\ rendered.sampleRate = 44100
    /\ rendered.length = 3
    /\ U32(4) = 48

\* C8: the payload is channel-major: sample s of channel c is stored at byte
\* 44 + 2*(c*L + s); every payload byte is stored exactly once and nothing is
\* stored past byte 44 + 2*C*L.
C8_ChannelMajor ==
    pc \in {"wavSamples", "done"} =>
        LET C == rendered.numberOfChannels
            L == rendered.length
        IN  /\ result # "error"
            /\ \A k \in DOMAIN viewWrites :
                /\ k >= 44 + 2 * C * L => viewWrites[k] = 0
                /\ k >= 44 => viewWrites[k] <= 1
            /\ pc = "done" =>
                \A c \in 0 .. C - 1 : \A k \in 0 .. L - 1 :
                    LET at == 44 + 2 * (c * L + k)
                    IN  /\ <<view[at], view[at + 1]>> =
                               Int16LE(EncodeSample(rendered.data[c][k]))
                        /\ viewWrites[at] = 1
                        /\ viewWrites[at + 1] = 1

C8_Witness ==
    /\ pc = "done"
    /\ rendered.numberOfChannels = 2
    /\ rendered.length = 3
    /\ rendered.data[0][1] = <<1, 2>>
    /\ rendered.data[1][0] = <<5, 4>>
    /\ Int16At(1) = 16383
    /\ Int16At(3) = 32767

\* trunc(clamp(x, -1, 1) * 0x8000) for x < 0 and trunc(clamp(x, -1, 1) * 0x7FFF)
\* otherwise, for a rational x = n/d.
ExpectedCode(x) ==
    LET c == IF RLt(x, MinusOne) THEN MinusOne ELSE IF RLt(One, x) THEN One ELSE x
    IN  IF c[1] < 0 THEN -((-c[1] * 32768) \div c[2]) ELSE (c[1] * 32767) \div c[2]

Encoded == {k \in 0 .. wi - 1 : IsRat(wdata[k])}

\* C9: a sample x is stored as trunc(c*0x8000) when c < 0 and trunc(c*0x7FFF)
\* otherwise, c = clamp(x, -1, 1): -1 gives -32768, 0 gives 0, +1 gives 32767,
\* the stored value lies in [-32768, 32767] and does not decrease when x grows.
C9_SampleEncoding ==
    pc \in {"wavSamples", "done"} =>
        /\ \A k \in Encoded :
            /\ Int16At(k) = ExpectedCode(wdata[k])
            /\ wdata[k] = MinusOne => Int16At(k) = -32768
            /\ wdata[k] = Zero => Int16At(k) = 0
            /\ wdata[k] = One => Int16At(k) = 32767
        /\ \A a \in Encoded : \A b \in Encoded :
            RLe(wdata[a], wdata[b]) => Int16At(a) <= Int16At(b)

C9_Witness ==
    /\ pc = "done"
    /\ \E a \in Encoded : wdata[a] = <<1, 2>> /\ Int16At(a) = 16383
    /\ \E a \in Encoded : wdata[a] = <<5, 4>> /\ Int16At(a) = 32767
    /\ \E a \in Encoded : wdata[a] = One /\ Int16At(a) = 32767

\* C10: a sample that is Infinity, -Infinity or NaN never makes the encoder fail
\* and is stored as a value the range [-1, 1] encodes to (32767, -32768 and 0);
\* the blob is produced with its full length.
C10_NonFinite ==
    /\ pc # "failed"
    /\ result # "error"
    /\ pc \in {"wavSamples", "done"} =>
        \A k \in 0 .. wi - 1 :
            /\ wdata[k] = PosInfinity => Int16At(k) = 32767
            /\ wdata[k] = NegInfinity => Int16At(k) = -32768
            /\ wdata[k] = NaN => Int16At(k) = 0
    /\ pc = "done" =>
        /\ result = "blob"
        /\ wi = rendered.numberOfChannels * rendered.length
        /\ BufLen(view) = 44 + 2 * rendered.numberOfChannels * rendered.length

C10_Witness ==
    /\ pc = "done"
    /\ result = "blob"
    /\ \E k \in 0 .. wi - 1 : wdata[k] = NaN
    /\ \E k \in 0 .. wi - 1 : wdata[k] = PosInfinity
    /\ \E k \in 0 .. wi - 1 : wdata[k] = NegInfinity

\* The channels whose input is silence, and a mono buffer of 4096 samples.
IsSilent(c) == \A k \in 0 .. audioBuffer.length - 1 : audioBuffer.data[c][k] = Zero
Mono4096 == [numberOfChannels |-> 1, length |-> 4096, sampleRate |-> 44100, data |-> <<>>]

\* C11: for an all-zero input channel and noiseAmount = 0, with any toggles,
\* every bin is zero after the forward transform, the effect pass and the inverse
\* transform, every output sample is zero and every WAV payload byte of the
\* channel is zero; a mono buffer of 4096 samples gives 8236 bytes with 8228 in
\* the header field [4:8).
C11_SilenceStaysSilent ==
    /\ HeaderSize + PayloadLength(Mono4096) = 8236
    /\ Uint32LE(RiffSize(PayloadLength(Mono4096))) = <<<<36>>, <<32>>, <<0>>, <<0>>>>
    /\ (Decoded /\ settings.noiseAmount = Zero) =>
        /\ (pc \in {"forward", "effect", "inverse", "copy"} /\ IsSilent(channel)) =>
            \A k \in DOMAIN fft : fft[k] = Zero
        /\ \A c \in Channels :
            IsSilent(c) =>
                /\ \A k \in 0 .. audioBuffer.length - 1 : outputData[c][k] = Zero
                /\ pc = "done" =>
                    \A k \in 0 .. 2 * audioBuffer.length - 1 :
                        view[HeaderSize + 2 * c * audioBuffer.length + k] = <<0>>

C11_Witness ==
    /\ pc = "done"
    /\ variant = "scrambleFix"
    /\ settings.noiseAmount = Zero
    /\ settings.useFrequencyScrambling
    /\ settings.useAdditionalPhaseDistortion
    /\ settings.useTimeDistortion
    /\ audioBuffer.numberOfChannels = 2
    /\ audioBuffer.length = 3
    /\ IsSilent(1)
    /\ ~IsSilent(0)
    /\ \A k \in 0 .. 5 : view[HeaderSize + 6 + k] = <<0>>

\* C12: anonymizeAudio never assigns to the settings object it is given: every
\* field keeps the value it had on entry and no field is added.
C12_SettingsReadOnly == [][settings' = settings]_vars

\* The stores of the copy loop of a window, given the random draws it may
\* depend on: the window's segment of its own channel holds the samples the
\* chunk-loop body computes from that channel's input, the settings and ds; every
\* other sample of every channel is left as it was.
CopyStores(ds) ==
    LET out == WindowOutput(variant, settings, chunkSize, audioBuffer.data[channel], i, ds)
    IN  \A c \in Channels : \A k \in 0 .. audioBuffer.length - 1 :
            outputData'[c][k] =
                IF c = channel /\ k >= i /\ k < i + chunkSize
                THEN out[k - i] ELSE outputData[c][k]

\* C13 as stated: the output of channel c is determined by the input of channel
\* c and the settings only, and a window writes nothing of another channel.
C13_InputAndSettingsOnly == [][pc = "copy" => CopyStores(<<>>)]_vars

\* C13 amended: the output of channel c is determined by the input of channel
\* c, the settings and the values Math.random() returned for the bins of channel
\* c's windows (by input and settings alone when noiseAmount = 0), and a window
\* writes nothing of another channel.
C13_InputSettingsAndDraws ==
    [][pc = "copy" =>
        CopyStores(IF settings.noiseAmount = Zero THEN <<>> ELSE draws)]_vars

C13_Witness ==
    /\ pc = "rendering"
    /\ audioBuffer.numberOfChannels = 2
    /\ audioBuffer.length = 3
    /\ chunkSize = 2
    /\ settings.noiseAmount = One
    /\ AnyToggle(settings)
    /\ \E k \in 0 .. 2 : outputData[0][k] # Zero
    /\ \E k \in 0 .. 2 : outputData[1][k] # Zero
    /\ outputData[0] # outputData[1]

\* C14: the noise draw is the only source of non-determinism.  The window after
\* the effect pass is a function of the forward transform, the settings and the
\* values Math.random() returned; with noiseAmount = 0 it is the same whatever
\* was returned, the finished output buffer is a function of the input buffer
\* and the settings, and the WAV bytes are a function of the output buffer.
C14_OnlyNoiseIsRandom ==
    /\ pc = "inverse" =>
        fft = EffectPass(variant, settings, chunkSize, spectrum,
                         IF settings.noiseAmount = Zero THEN <<>> ELSE draws, 0)
    /\ (pc = "rendering" /\ settings.noiseAmount = Zero) =>
        \A c \in Channels :
            outputData[c] = ChannelOutput(variant, settings, chunkSize,
                                          audioBuffer.data[c], <<>>)
    /\ pc = "done" =>
        \A c \in Channels : \A k \in 0 .. audioBuffer.length - 1 :
            LET at == HeaderSize + 2 * (c * audioBuffer.length + k)
            IN  <<view[at], view[at + 1]>> = Int16LE(EncodeSample(outputData[c][k]))

C14_Witness ==
    /\ pc = "inverse"
    /\ settings.noiseAmount = Zero
    /\ Len(draws) = chunkSize
    /\ draws[1] = <<1, 2>>
    /\ spectrum[0] # Zero
    /\ fft # spectrum

\* C15: anonymizeAudio has exactly two outcomes.  It fails only because decoding
\* failed, before any window is processed and before any output buffer or blob
\* exists; otherwise it processes ceil(L/N) windows of every channel and returns
\* one complete blob.
C15_TwoOutcomes ==
    /\ result \in {"none", "error", "blob"}
    /\ pc = "failed" <=> result = "error"
    /\ pc = "done" <=> result = "blob"
    /\ result = "error" =>
        /\ audioBuffer = NoBuffer
        /\ outputData = <<>>
        /\ windows = <<>>
        /\ view = <<>>
    /\ result = "blob" =>
        /\ \A c \in Channels :
            windows[c] = (audioBuffer.length + chunkSize - 1) \div chunkSize
        /\ BufLen(view) = HeaderSize + 2 * audioBuffer.numberOfChannels * audioBuffer.length
        /\ wi = audioBuffer.numberOfChannels * audioBuffer.length

\* Every window of every channel has been copied to the output buffer.
AllCopied ==
    \A c \in Channels :
        /\ windows[c] = (audioBuffer.length + chunkSize - 1) \div chunkSize
        /\ \A k \in 0 .. audioBuffer.length - 1 : writes[c][k] = 1

\* C16: for every window the stages run once each in the order fill, forwardFFT,
\* effect pass (bins 0 .. N-1 in order), inverseFFT, shaping and copy, a new
\* window is filled only after the copy of the one before, and WAV encoding
\* starts only after every window of every channel has been copied.
C16_StageOrder ==
    [][/\ pc = "fill" => pc' \in {"forward", "failed"}
       /\ pc' = "forward" => (pc = "fill" /\ windows' # windows)
       /\ pc = "forward" => (pc' = "effect" /\ j' = 0)
       /\ pc' = "effect" => pc \in {"forward", "effect"}
       /\ pc = "effect" => (/\ j' = j + 1
                            /\ Len(binLog') = j'
                            /\ pc' = IF j' = chunkSize THEN "inverse" ELSE "effect")
       /\ pc' = "inverse" => pc = "effect"
       /\ pc = "inverse" => pc' = "copy"
       /\ pc' = "copy" => pc = "inverse"
       /\ pc = "copy" => (/\ pc' \in {"fill", "rendering"}
                          /\ writes' # writes
                          /\ pc' = "rendering" <=> AllCopied')
       /\ pc' = "fill" => pc \in {"decoding", "copy"}
       /\ pc \notin {"decoding", "fill"} => windows' = windows
       /\ pc' = "rendering" => pc = "copy"
       /\ pc = "rendering" => (pc' = "wavHeader" /\ rendered'.data = outputData)
       /\ pc' \in {"wavHeader", "wavSamples", "done"} =>
            (AllCopied /\ outputData' = outputData /\ writes' = writes)
       /\ view' # <<>> => pc' \in {"wavSamples", "done"}]_vars

C16_Witness ==
    /\ pc = "wavSamples"
    /\ audioBuffer.numberOfChannels = 2
    /\ audioBuffer.length = 3
    /\ chunkSize = 2
    /\ wi = 1
    /\ AllCopied
    /\ \E k \in 0 .. 2 : outputData[1][k] # Zero

\* C17: the copy loop stores, for each sample of the window, a value computed
\* from the real component alone: the real component itself when
\* useTimeDistortion is false, tanh(sample * timeDistortionAmount) /
\* tanh(timeDistortionAmount) when it is true, so that -1, 0 and +1 give -1, 0
\* and +1.
C17_Shaper ==
    [][pc = "copy" =>
        \A k \in 0 .. audioBuffer.length - 1 :
            (k >= i /\ k < i + chunkSize) =>
                LET sample == fft[2 * (k - i)]
                    out == outputData'[channel][k]
                IN  /\ ~settings.useTimeDistortion => out = sample
                    /\ settings.useTimeDistortion =>
                        /\ out = Tanh(sample, settings.timeDistortionAmount[1], 1)
                        /\ sample \in {MinusOne, Zero, One} => out = sample]_vars

\* C18: the value iteration j of the effect pass reads for bin j is the
\* forward-transform output at j, whatever the toggles are.
C18_ReadsForwardValue ==
    \A k \in 1 .. Len(binLog) :
        binLog[k].read = <<spectrum[2 * (k - 1)], spectrum[2 * (k - 1) + 1]>>

\* C19: the bin negated in iteration j (useAdditionalPhaseDistortion set, j
\* even) is the bin iteration j has just written, targetBin(j), and no other.
C19_NegatesWrittenBin ==
    \A k \in 1 .. Len(binLog) :
        /\ binLog[k].negated \subseteq binLog[k].wrote
        /\ (settings.useAdditionalPhaseDistortion /\ (k - 1) % 2 = 0) =>
                binLog[k].negated = binLog[k].wrote

\* (j + offset + N) mod N with maxOffset = floor(N * range) and
\* offset = ((j * 8273) mod (2 * maxOffset + 1)) - maxOffset, range = n/d.
ExpectedTarget(bin, N, range) ==
    LET mo == (N * range[1]) \div range[2]
    IN  (bin + (((bin * 8273) % (2 * mo + 1)) - mo) + N) % N

\* C20: with useFrequencyScrambling the value computed for source bin j is
\* written to (j + offset + N) mod N, offset as above, and to bin j without it.
C20_ScrambleFormula ==
    \A k \in 1 .. Len(binLog) :
        binLog[k].wrote \subseteq
            { IF settings.useFrequencyScrambling
              THEN ExpectedTarget(k - 1, chunkSize,
                                  WithDefault(settings.frequencyScrambleRange,
                                              DefaultScrambleRange))
              ELSE k - 1 }

\* The source bins whose recomputed value the finished effect pass stored at t.
Sources(t) == {k \in 1 .. Len(binLog) : t \in binLog[k].wrote}

ValueComputedFor(k) ==
    LET nv == RewrittenBin(settings, chunkSize, k - 1, binLog[k].read[1], binLog[k].read[2],
                           draws[k])
    IN  IF NegateGuard(settings, k - 1) THEN <<RNeg(nv[1]), RNeg(nv[2])>> ELSE nv

\* C22: when several source bins have the destination t, the value held at t at
\* the end of the effect pass is the one computed for the largest of them.
C22_LaterWriteWins ==
    (pc = "inverse" /\ settings.useFrequencyScrambling) =>
        \A t \in 0 .. chunkSize - 1 :
            Cardinality(Sources(t)) > 1 =>
                LET last == CHOOSE m \in Sources(t) : \A n \in Sources(t) : n <= m
                IN  <<fft[2 * t], fft[2 * t + 1]>> = ValueComputedFor(last)

\* C26: for every j in [0, N) and every maxOffset in [0, N] the scrambling offset
\* lies in [-maxOffset, maxOffset] and targetBin in [0, N); every store of the
\* effect pass falls inside the 2N-element window; with maxOffset = 0 the offset
\* is 0 and targetBin is j.
C26_OffsetAndTargetInRange ==
    /\ \A mo \in 0 .. chunkSize : \A bin \in 0 .. chunkSize - 1 :
            LET off == scrambleOffset(bin, mo)
                t == JsMod(bin + off + chunkSize, chunkSize)
            IN  /\ -mo <= off /\ off <= mo
                /\ 0 <= t /\ t < chunkSize
                /\ mo = 0 => (off = 0 /\ t = bin)
    /\ pc \in {"effect", "inverse"} =>
            /\ DOMAIN fft = 0 .. 2 * chunkSize - 1
            /\ \A k \in 1 .. Len(binLog) :
                    /\ \A t \in binLog[k].wrote \cup binLog[k].negated :
                            {2 * t, 2 * t + 1} \subseteq DOMAIN fft
                    /\ (/\ variant = "scrambleFix"
                        /\ settings.useFrequencyScrambling
                        /\ maxOffset(settings, chunkSize) = 0) => binLog[k].wrote = {k - 1}

\* A finished pass whose first iteration had the offset -maxOffset = -2 and
\* wrapped around the end of the window.
C26_Witness ==
    /\ pc = "inverse"
    /\ variant = "scrambleFix"
    /\ settings.useFrequencyScrambling
    /\ chunkSize = 4
    /\ maxOffset(settings, chunkSize) = 2
    /\ scrambleOffset(0, 2) = -2
    /\ binLog[1].wrote = {2}
    /\ binLog[1].read[1] # Zero

\* C27: with useFrequencyScrambling set and useAdditionalPhaseDistortion not, a
\* bin that is the destination of no source bin holds its forward-transform
\* value after the effect pass.
C27_UnreachedBinsKept ==
    (/\ pc = "inverse"
     /\ settings.useFrequencyScrambling
     /\ ~settings.useAdditionalPhaseDistortion) =>
        \A t \in 0 .. chunkSize - 1 :
            Sources(t) = {} =>
                fft[2 * t] = spectrum[2 * t] /\ fft[2 * t + 1] = spectrum[2 * t + 1]

\* A finished pass that left a non-zero bin 0 unreached and changed another bin.
C27_Witness ==
    /\ pc = "inverse"
    /\ settings.useFrequencyScrambling
    /\ ~settings.useAdditionalPhaseDistortion
    /\ chunkSize = 4
    /\ Sources(0) = {}
    /\ spectrum[0] # Zero
    /\ \E t \in 1 .. 3 : Sources(t) # {} /\ fft[2 * t] # spectrum[2 * t]

\* The sum over m = n .. N-1 of x[m] * e^(-2*pi*i*k*m/N), for N in {1, 2, 4}.
RECURSIVE DftSum(_, _, _, _)
DftSum(x, N, k, n) ==
    IF n >= N THEN <<Zero, Zero>>
    ELSE LET q == -((4 * k * n) \div N)
             term == CMul(<<x[2 * n], x[2 * n + 1]>>, <<CosQ(q), SinQ(q)>>)
             rest == DftSum(x, N, k, n + 1)
         IN  <<RAdd(term[1], rest[1]), RAdd(term[2], rest[2])>>

\* C23: forwardFFT leaves in bin k the sum over n of x[n] * e^(-2*pi*i*k*n/N),
\* for every complex window x of N = 1, 2 or 4 samples and every k in [0, N).
C23_ForwardIsDFT ==
    spectrum # <<>> =>
        \A k \in 0 .. chunkSize - 1 :
            <<spectrum[2 * k], spectrum[2 * k + 1]>> = DftSum(filled, chunkSize, k, 0)

\* A transformed window of four samples with non-zero imaginary parts whose
\* bins 1 and 3 differ.
C23_Witness ==
    /\ spectrum # <<>>
    /\ chunkSize = 4
    /\ filled[3] = One
    /\ filled[4] = One
    /\ <<spectrum[2], spectrum[3]>> # <<spectrum[6], spectrum[7]>>
    /\ spectrum[3] # Zero

\* C24: given the same interleaved complex buffer, the recursive forwardFFT of
\* the earlier variants and the iterative forwardFFT leave the same values in
\* the buffer.
C24_RecursiveEqualsIterative ==
    (spectrum # <<>> /\ recBuffer # <<>>) => recBuffer = spectrum

\* The exchanges of the bit-reversal loop that involve position x.
SwapsOf(x) == {k \in 1 .. Len(swaps) : x \in {swaps[k][1], swaps[k][2]}}

\* C25: for N = 2^bits, reverseBits(., bits) maps [0, N) onto itself and is its
\* own inverse; the swap loop exchanges each pair {i, reverse(i)} exactly once
\* and no fixed point, so that after the loop position i holds the complex
\* sample that was at reverse(i), real and imaginary part together.
C25_BitReversal ==
    LET bits == Log2(chunkSize)
        rev(x) == reverseBits(x, bits)
    IN  /\ \A x \in 0 .. chunkSize - 1 :
                /\ rev(x) \in 0 .. chunkSize - 1
                /\ rev(rev(x)) = x
        /\ \A k \in 1 .. Len(swaps) :
                swaps[k][2] = rev(swaps[k][1]) /\ swaps[k][1] # swaps[k][2]
        /\ \A x \in 0 .. chunkSize - 1 : Cardinality(SwapsOf(x)) <= 1
        /\ pc = "butterflies" =>
                /\ \A x \in 0 .. chunkSize - 1 :
                        /\ Cardinality(SwapsOf(x)) = IF rev(x) = x THEN 0 ELSE 1
                        /\ fft[2 * x] = filled[2 * rev(x)]
                        /\ fft[2 * x + 1] = filled[2 * rev(x) + 1]
                /\ fft = BitReversal(filled, chunkSize, bits, 0)

\* The loop finished on 8 samples: 1 and 4, 3 and 6 exchanged, the rest in place.
C25_Witness ==
    /\ pc = "butterflies"
    /\ chunkSize = 8
    /\ Len(swaps) = 2
    /\ <<fft[2], fft[3]>> = <<filled[8], filled[9]>>
    /\ <<fft[12], fft[13]>> = <<filled[6], filled[7]>>
    /\ fft[4] = filled[4]

\* C28: whenever isProcessing is true it is false again later, on every path of
\* handleRecord, those where stopRecording or anonymizeAudio fails included.
C28_ProcessingEnds == isProcessing ~> ~isProcessing

\* C29: every stopRecording that handleRecord calls finds mediaRecorder
\* non-null, so the early return that leaves the promise pending is not taken;
\* once the stop event of the recorder it stopped has fired the promise is
\* resolved, and while the promise is pending and the recorder has not ended
\* that event is still to come.
C29_StopFindsRecorder ==
    \A c \in 1 .. Len(calls) :
        calls[c].branch = "stop" =>
            /\ calls[c].recorder # 0
            /\ LET r == recorders[calls[c].recorder]
               IN  /\ (r.onstop = c /\ r.ended = "stop") => calls[c].promise = "resolved"
                   /\ (calls[c].promise = "pending" /\ r.ended = "no") =>
                            (r.onstop = c /\ r.state = "stopping")

\* A stopRecording whose promise the stop event of its recorder resolved, in a
\* run where a second startRecording had been called before the first finished.
C29_Witness ==
    \E c \in 1 .. Len(calls) :
        /\ calls[c].branch = "stop"
        /\ calls[c].promise = "resolved"
        /\ recorders[calls[c].recorder].ended = "stop"
        /\ c = 3
        /\ calls[1].branch = "start" /\ calls[2].branch = "start"

\* C30: when the promise of a stopRecording is resolved, its blob consists of
\* exactly the data chunks delivered by the recorder that stopRecording
\* stopped (the one the most recently completed startRecording created), in the
\* order delivered, and chunks is empty after the step; across consecutive
\* recordings and with two startRecording calls in flight.
C30_BlobOfCurrentRecorder ==
    [][\A c \in 1 .. Len(calls) :
          (calls[c].promise = "pending" /\ calls'[c].promise = "resolved") =>
              /\ calls'[c].blob = <<calls[c].recorder>>
              /\ chunks' = <<>>]_vars

====
